---- MODULE Spec2Model ----
(***************************************************************************)
(* Function-call tracing engines of the repository:                        *)
(*   FunctionTracer  (src/src/core/tracer.ts)                              *)
(*   InlineTracer    (src/src/runtime/inline-tracer.ts)                    *)
(* One tracer instance is modelled per behaviour; `tracer` says which      *)
(* class the instance belongs to.  A CallRecord is a TLA+ record whose     *)
(* optional TypeScript properties (endTime, duration, returnValue, error)  *)
(* are fields that are present only once they have been assigned.          *)
(* File paths are sequences of '/'-separated segments; performance.now()   *)
(* is the variable `now`, advanced by the environment.                     *)
(***************************************************************************)
EXTENDS Integers, Sequences, FiniteSets, TLC

VARIABLES tracer, options, callStack, callHistory, fileStats, currentDepth,
          enabled, now, nextId, last, statsView, raised

vars == <<tracer, options, callStack, callHistory, fileStats, currentDepth,
          enabled, now, nextId, last, statsView, raised>>

(* ------------------------------ bounds --------------------------------- *)
MaxCalls == 2          \* enter calls that create a record, FunctionTracer
MaxInlineCalls == 1    \* enter calls that create a record, InlineTracer
MaxSupplements == 1    \* synthesized records held in history at a time
MaxDepthOpt == 1       \* the small maxDepth option a tracer is built with
MaxNested == 4         \* enter calls that create a record, well-nested callers
MaxCleared == 2        \* enter calls that create a record, callers that clear
MaxStats == 2          \* enter calls that create a record, callers that read stats
MaxBridge == 3         \* enter calls that create a record, suspended callers
MaxSerial == 2         \* enter calls that create a record, callers passing objects
MaxGraph == 1          \* enter calls that create a record, callers passing object graphs
MaxDrain == 3          \* enter calls that create a record, callers that end every call
MaxQuery == 2          \* enter calls that create a record, callers that query
MaxTransform == 3      \* enter calls that create a record, instrumented functions
DefaultMaxDepth == 100

(* ------------------------- values and inputs --------------------------- *)
EmptyId == ""
Null == "<null>"
Undefined == "<undefined>"

IdPool == <<"call_1", "call_2", "call_3", "call_4", "call_5", "call_6">>
ForeignIds == {"nonexistent-id"}

FilePaths == {<<"src", "main.ts">>, <<"src", "lib", "util.ts">>,
              <<"node_modules", "dep.js">>}
(* the instrumented call sites: the (name, file) pairs enter is called with *)
CallSites ==
    IF tracer = "FunctionTracer"
    THEN {<<"main", <<"src", "main.ts">> >>,
          <<"console.log", <<"src", "main.ts">> >>,
          <<"loadAsync", <<"node_modules", "dep.js">> >>}
    ELSE {<<"main", <<"src", "main.ts">> >>,
          <<"loadAsync", <<"src", "lib", "util.ts">> >>}
ReturnValues == {"rv"}
Errors == {[name |-> "E", message |-> "boom"]}
(* the values performance.now() returns, in time units *)
ClockReadings == {0, 1}
(* call sites and clock readings of a synchronous caller; the readings lie on
   both sides of the 50 time-unit window of findDirectParent *)
NestedSites == {<<"main", <<"src", "main.ts">> >>,
                <<"childA", <<"src", "main.ts">> >>,
                <<"childB", <<"src", "lib", "util.ts">> >>}
NestedClock == {0, 60}
(* call sites and clock readings of a caller whose calls are suspended and
   resumed: one name in two files, a name with an asynchronous marker, and
   readings on both sides of the windows of 50 and 100 time units *)
BridgeSites == {<<"run", <<"src", "main.ts">> >>,
                <<"run", <<"src", "lib", "util.ts">> >>,
                <<"loadAsync", <<"src", "lib", "util.ts">> >>}
BridgeClock == {0, 60, 120}
SamplingRates == {100}
RandomDraws == {0, 99}

DefaultIgnorePatterns == {"^console\\.", "^__TRACER__", "^Date\\.",
                          "^performance\\.", "^JSON\\.", "^Math\\."}
DefaultIgnoreFiles == {"node_modules", "\\.min\\."}

(* ------------------------------ helpers -------------------------------- *)
Max(S) == CHOOSE x \in S : \A y \in S : y <= x
Min(S) == CHOOSE x \in S : \A y \in S : x <= y
RemoveTop(s, i) == SubSeq(s, 1, Len(s) - 1)
(* Array.prototype.splice(i, 1) *)
RemoveAt(s, i) == SubSeq(s, 1, i - 1) \o SubSeq(s, i + 1, Len(s))
Has(r, f) == f \in DOMAIN r
Indices(s, id) == {i \in 1..Len(s) : s[i].id = id}
DurationOrZero(r) == IF Has(r, "duration") THEN r.duration ELSE 0
RECURSIVE SumSeq(_)
SumSeq(s) == IF s = <<>> THEN 0 ELSE s[1] + SumSeq(Tail(s))

(* RegExp.test / String.includes on the names and paths of the model *)
matchPattern(text, pattern) ==
    CASE pattern = "^console\\." -> text = "console.log"
      [] pattern = "node_modules" ->
            /\ text \in FilePaths
            /\ \E i \in 1..Len(text) : text[i] = "node_modules"
      [] OTHER -> FALSE

(* --------------------------- FunctionTracer ---------------------------- *)
shouldTrace_NoFiles(functionName, filePath) ==
    IF ~enabled THEN FALSE
    ELSE IF \E p \in options.ignorePatterns : matchPattern(functionName, p) THEN FALSE
    ELSE TRUE
shouldTrace(functionName, filePath) ==
    IF ~enabled THEN FALSE
    ELSE IF \E p \in options.ignoreFiles : matchPattern(filePath, p) THEN FALSE
    ELSE IF \E p \in options.ignorePatterns : matchPattern(functionName, p) THEN FALSE
    ELSE TRUE

generateCallId == IdPool[nextId]

(* a variant of findCallInStack that takes whatever is on top *)
findCallInStack_Top(callId) == Len(callStack)

findCallInStack(callId) ==
    IF Indices(callStack, callId) = {} THEN 0 ELSE Max(Indices(callStack, callId))

(* The values a traced program hands over, written as source text: a string,
   a function, a plain object, an object with a function and an undefined
   member, and an object that refers to itself. *)
PlainValues == {"rv"}
FunctionValues == {"function f() {}"}
ObjectValues == {"{a: 1}", "{a: 1, f: function f() {}, u: undefined}"}
CyclicValues == {"o = {self: o}"}
SerialValues == PlainValues \cup FunctionValues \cup ObjectValues \cup CyclicValues

FunctionMarker(value) == "[Function: " \o "f" \o "]"

(* JSON.parse(JSON.stringify(value, replacer)): members that are functions
   become their marker, undefined members are left out *)
JSONRoundTrip(value) ==
    IF value = "{a: 1, f: function f() {}, u: undefined}"
    THEN "{a: 1, f: '" \o FunctionMarker("function f() {}") \o "'}"
    ELSE value

Returned(value) == [threw |-> FALSE, value |-> value]
Threw(exception) == [threw |-> TRUE, exception |-> exception]

defaultSerializer(value) ==
    IF value \in {Null, Undefined} THEN value
    ELSE IF value \in FunctionValues THEN FunctionMarker(value)
    ELSE IF value \in ObjectValues \cup CyclicValues
         THEN IF value \in CyclicValues THEN "[Object: non-serializable]"
              ELSE JSONRoundTrip(value)
    ELSE value

(* a serializer a program may configure: value => JSON.stringify(value) *)
stringifySerializer(value) ==
    IF value \in CyclicValues THEN Threw("TypeError")
    ELSE IF value \in FunctionValues \cup {Undefined} THEN Returned(Undefined)
    ELSE Returned("'" \o value \o "'")

(* this.options.serializer(value): a value or an exception *)
serializer(value) ==
    IF options.serializer = "defaultSerializer" THEN Returned(defaultSerializer(value))
    ELSE stringifySerializer(value)

(* argsArray.map(arg => this.options.serializer(arg)) *)
serializeArgs(args) ==
    LET results == [i \in 1..Len(args) |-> serializer(args[i])]
    IN  IF \E i \in 1..Len(args) : results[i].threw
        THEN Threw(results[Min({i \in 1..Len(args) : results[i].threw})].exception)
        ELSE Returned([i \in 1..Len(args) |-> results[i].value])

(* A stats object handed out by getStats: fileStats is new Map(this.fileStats),
   a new Map holding the tracer's own entry objects.  `entries` is what a
   reader sees through it, `live` the files whose entry object is still the
   one the tracer updates in place (clear() drops the tracer's references;
   entries created afterwards are new objects). *)
NoStats == [taken |-> FALSE, entries |-> <<>>, live |-> {}]

Shared(view, stats) ==
    LET live == view.live \cap DOMAIN stats
    IN  [taken |-> view.taken,
         entries |-> [f \in DOMAIN view.entries |->
                        IF f \in live THEN stats[f] ELSE view.entries[f]],
         live |-> live]

(* a variant of updateFileStats that does not accumulate the duration *)
updateFileStats_CountOnly(stats, record) ==
    LET filePath == record.filePath
        old == IF filePath \in DOMAIN stats THEN stats[filePath]
               ELSE [callCount |-> 0, totalDuration |-> 0, functions |-> {}]
    IN  (filePath :> [old EXCEPT !.callCount = @ + 1,
                                 !.functions = @ \cup {record.name}]) @@ stats

updateFileStats(stats, record) ==
    LET filePath == record.filePath
        old == IF filePath \in DOMAIN stats THEN stats[filePath]
               ELSE [callCount |-> 0, totalDuration |-> 0, functions |-> {}]
        new == [callCount |-> old.callCount + 1,
                totalDuration |-> old.totalDuration + DurationOrZero(record),
                functions |-> old.functions \cup {record.name}]
    IN  (filePath :> new) @@ stats

(* parent.childrenIds.push(callId) on the first stack record with that id *)
PushChild(stack, parentId, callId) ==
    IF parentId = Null \/ Indices(stack, parentId) = {} THEN stack
    ELSE LET i == Min(Indices(stack, parentId))
         IN  [stack EXCEPT ![i].childrenIds = Append(@, callId)]

(* a variant of NewRecord that counts the new record in its own depth *)
NewRecord_Deeper(callId, functionName, filePath, args, depth, parentId) ==
    [id |-> callId, name |-> functionName, filePath |-> filePath, args |-> args,
     status |-> "active", depth |-> depth + 1, startTime |-> now,
     parentId |-> parentId, childrenIds |-> <<>>]

NewRecord(callId, functionName, filePath, args, depth, parentId) ==
    [id |-> callId, name |-> functionName, filePath |-> filePath, args |-> args,
     status |-> "active", depth |-> depth, startTime |-> now,
     parentId |-> parentId, childrenIds |-> <<>>]

NoException == "<none>"

(* enter(functionName, filePath, args, metadata); rnd is what Math.random()
   returns, budget caps the records one behaviour creates *)
FunctionTracer_enterArgs(functionName, filePath, args, rnd, budget) ==
    /\ tracer = "FunctionTracer"
    /\   IF \/ ~shouldTrace(functionName, filePath)
            \/ rnd > options.samplingRate
            \/ currentDepth >= options.maxDepth
         THEN /\ last' = [op |-> "enter", id |-> EmptyId, name |-> functionName,
                          filePath |-> filePath]
              /\ raised' = NoException
              /\ UNCHANGED <<callStack, currentDepth, nextId>>
         ELSE /\ nextId <= budget
              /\ LET callId == generateCallId
                     parentId == IF Len(callStack) > 0
                                 THEN callStack[Len(callStack)].id ELSE Null
                     serialized == IF options.includeArguments THEN serializeArgs(args)
                                   ELSE Returned(<<>>)
                 IN  IF serialized.threw
                     THEN (* the exception leaves enter before the record exists *)
                          /\ raised' = serialized.exception
                          /\ last' = [op |-> "enter", id |-> EmptyId,
                                      name |-> functionName, filePath |-> filePath]
                          /\ UNCHANGED <<callStack, currentDepth, nextId>>
                     ELSE LET record == NewRecord(callId, functionName, filePath,
                                                  serialized.value, currentDepth,
                                                  parentId)
                          IN  /\ callStack' = Append(PushChild(callStack, parentId, callId),
                                                     record)
                              /\ last' = [op |-> "enter", id |-> callId,
                                          name |-> functionName, filePath |-> filePath]
                              /\ currentDepth' = currentDepth + 1
                              /\ nextId' = nextId + 1
                              /\ raised' = NoException
    /\ UNCHANGED <<tracer, options, callHistory, fileStats, enabled, now, statsView>>

FunctionTracer_enterCall(functionName, filePath, rnd, budget) ==
    FunctionTracer_enterArgs(functionName, filePath, <<>>, rnd, budget)

FunctionTracer_enter ==
    \E site \in CallSites, rnd \in RandomDraws :
       FunctionTracer_enterCall(site[1], site[2], rnd, MaxCalls)

notTraced_IdOnly(callId) == callId = EmptyId
(* if (!callId || !this.enabled) return; *)
notTraced(callId) == callId = EmptyId \/ ~enabled

FinalizeCompleted(record, endTime, status, payload) ==
    payload @@ [endTime |-> endTime, duration |-> endTime - record.startTime]
            @@ [record EXCEPT !.status = "completed"]
FinalizeNoEnd(record, endTime, status, payload) ==
    payload @@ [record EXCEPT !.status = status]
(* set endTime, duration, status and the payload of a record *)
Finalize(record, endTime, status, payload) ==
    payload @@ [endTime |-> endTime, duration |-> endTime - record.startTime]
            @@ [record EXCEPT !.status = status]

FunctionTracer_exitCall(callId, returnValue) ==
    /\ tracer = "FunctionTracer"
    /\   /\ last' = [op |-> "exit", id |-> callId, name |-> "", filePath |-> <<>>]
         /\ IF notTraced(callId)
            THEN /\ raised' = NoException
                 /\ UNCHANGED <<callStack, callHistory, currentDepth, fileStats>>
            ELSE LET endTime == now
                     callIndex == findCallInStack(callId)
                 IN  IF callIndex = 0
                     THEN /\ raised' = NoException
                          /\ UNCHANGED <<callStack, callHistory, currentDepth, fileStats>>
                     ELSE LET serialized ==
                                  IF options.includeReturnValues /\ returnValue # Undefined
                                  THEN serializer(returnValue)
                                  ELSE Returned(Undefined)
                              payload ==
                                  IF options.includeReturnValues /\ returnValue # Undefined
                                  THEN [returnValue |-> serialized.value]
                                  ELSE <<>>
                              record == Finalize(callStack[callIndex], endTime,
                                                 "completed", payload)
                          IN  IF serialized.threw
                              THEN (* endTime, duration and status are already
                                      written to the record in the stack *)
                                   /\ callStack' =
                                        [callStack EXCEPT ![callIndex] =
                                           Finalize(@, endTime, "completed", <<>>)]
                                   /\ raised' = serialized.exception
                                   /\ UNCHANGED <<callHistory, currentDepth, fileStats>>
                              ELSE /\ callStack' = RemoveAt(callStack, callIndex)
                                   /\ callHistory' = Append(callHistory, record)
                                   /\ currentDepth' = currentDepth - 1
                                   /\ fileStats' = updateFileStats(fileStats, record)
                                   /\ raised' = NoException
    /\ UNCHANGED <<tracer, options, enabled, now, nextId>>
    /\ statsView' = Shared(statsView, fileStats')

(* the ids a caller can hold: those issued so far, a made-up one, the empty one *)
CallIds == {IdPool[i] : i \in 1..(nextId - 1)} \cup ForeignIds \cup {EmptyId}

FunctionTracer_exit ==
    \E callId \in CallIds, returnValue \in ReturnValues :
       FunctionTracer_exitCall(callId, returnValue)

errorInfo_AsGiven(error) == error
(* record.error = {name, message, stack: error.stack || ''} *)
errorInfo(error) ==
    [name |-> error.name, message |-> error.message,
     stack |-> IF Has(error, "stack") /\ error.stack # "" THEN error.stack ELSE ""]

FunctionTracer_errorCall(callId, error) ==
    /\ tracer = "FunctionTracer"
    /\   /\ last' = [op |-> "error", id |-> callId, name |-> "", filePath |-> <<>>]
         /\ IF notTraced(callId)
            THEN UNCHANGED <<callStack, callHistory, currentDepth, fileStats>>
            ELSE LET endTime == now
                     callIndex == findCallInStack(callId)
                 IN  IF callIndex = 0
                     THEN UNCHANGED <<callStack, callHistory, currentDepth, fileStats>>
                     ELSE LET record == Finalize(callStack[callIndex], endTime, "error",
                                                 [error |-> errorInfo(error)])
                          IN  /\ callStack' = RemoveAt(callStack, callIndex)
                              /\ callHistory' = Append(callHistory, record)
                              /\ currentDepth' = currentDepth - 1
                              /\ fileStats' = updateFileStats(fileStats, record)
    /\ UNCHANGED <<tracer, options, enabled, now, nextId>>
    /\ statsView' = Shared(statsView, fileStats')
    /\ raised' = NoException

FunctionTracer_error ==
    \E callId \in CallIds, error \in Errors : FunctionTracer_errorCall(callId, error)

(* completedRecords.filter(duration !== undefined)
      .sort((a, b) => (b.duration || 0) - (a.duration || 0)): stable, descending *)
RECURSIVE sortByDuration(_)
sortByDuration(records) ==
    IF records = <<>> THEN <<>>
    ELSE LET rest == sortByDuration(SubSeq(records, 1, Len(records) - 1))
             x == records[Len(records)]
             k == Cardinality({i \in 1..Len(rest) :
                                  DurationOrZero(rest[i]) >= DurationOrZero(x)})
         IN  SubSeq(rest, 1, k) \o <<x>> \o SubSeq(rest, k + 1, Len(rest))

FunctionTracer_getStats ==
    LET completedRecords == callHistory
        durations == sortByDuration(SelectSeq(completedRecords,
                                              LAMBDA r : Has(r, "duration")))
    IN  [totalCalls |-> Len(callHistory \o callStack),
         totalDuration |-> SumSeq([i \in 1..Len(completedRecords) |->
                                     DurationOrZero(completedRecords[i])]),
         slowestCall |-> IF durations = <<>> THEN Null ELSE durations[1],
         fastestCall |-> IF durations = <<>> THEN Null ELSE durations[Len(durations)],
         errorCount |-> Cardinality({i \in 1..Len(callHistory) :
                                        Has(callHistory[i], "error")}),
         fileStats |-> fileStats]

FunctionTracer_clear_KeepDepth ==
    /\ tracer = "FunctionTracer"
    /\ callStack' = <<>>
    /\ callHistory' = <<>>
    /\ fileStats' = <<>>
    /\ last' = [op |-> "clear", id |-> EmptyId, name |-> "", filePath |-> <<>>]
    /\ UNCHANGED <<tracer, options, enabled, now, nextId, currentDepth>>
    /\ statsView' = Shared(statsView, fileStats')
    /\ raised' = NoException
FunctionTracer_clear ==
    /\ tracer = "FunctionTracer"
    /\ callStack' = <<>>
    /\ callHistory' = <<>>
    /\ fileStats' = <<>>
    /\ currentDepth' = 0
    /\ last' = [op |-> "clear", id |-> EmptyId, name |-> "", filePath |-> <<>>]
    /\ UNCHANGED <<tracer, options, enabled, now, nextId>>
    /\ statsView' = Shared(statsView, fileStats')
    /\ raised' = NoException

FunctionTracer_setEnabled ==
    /\ tracer = "FunctionTracer"
    /\ \E b \in BOOLEAN : enabled' = b
    /\ last' = [op |-> "setEnabled", id |-> EmptyId, name |-> "", filePath |-> <<>>]
    /\ UNCHANGED <<tracer, options, callStack, callHistory, fileStats, currentDepth,
                   statsView,
                   now, nextId>>
    /\ raised' = NoException

(* ---------------------------- InlineTracer ----------------------------- *)
(* The find* operators return an index into callStack, 0 standing for null. *)
(* a variant of findDirectParent that never finds one *)
findDirectParent_None(functionName, filePath, currentTime) == 0

findDirectParent(functionName, filePath, currentTime) ==
    LET top == Len(callStack)
    IN  IF top = 0 \/ callStack[top].status # "active" THEN 0
        ELSE LET timeDiff == currentTime - callStack[top].startTime
                 isSameFile == callStack[top].filePath = filePath
                 isShortInterval == timeDiff < 50
             IN  IF isSameFile /\ isShortInterval THEN top ELSE 0

isLikelyRecursiveCall(functionName, filePath) ==
    Cardinality({i \in 1..Len(callStack) :
                    /\ callStack[i].name = functionName
                    /\ callStack[i].filePath = filePath
                    /\ callStack[i].status = "active"}) >= 3

findNonSameFunctionParent(functionName) ==
    LET c == {i \in 1..Len(callStack) :
                 callStack[i].status = "active" /\ callStack[i].name # functionName}
    IN  IF c = {} THEN 0 ELSE Max(c)

findNonRecursiveParent(functionName, filePath) ==
    IF ~isLikelyRecursiveCall(functionName, filePath)
    THEN findNonSameFunctionParent(functionName)
    ELSE 0

(* String.includes of 'Async', 'async', 'Promise', 'await' on the model's names *)
isAsyncFunction(functionName) == functionName \in {"loadAsync"}

findAsyncBoundaryParent(currentTime) ==
    LET c == {i \in 1..Len(callStack) :
                 /\ callStack[i].status = "active"
                 /\ currentTime - callStack[i].startTime > 100
                 /\ isAsyncFunction(callStack[i].name)}
    IN  IF c = {} THEN 0 ELSE Max(c)

isReasonableCrossModuleCall(parentFile, childFile) ==
    LET parentParts == parentFile
        childParts == childFile
        sameDir == SubSeq(parentParts, 1, Len(parentParts) - 1)
                     = SubSeq(childParts, 1, Len(childParts) - 1)
        parentIsHigher == Len(parentParts) < Len(childParts)
    IN  sameDir \/ parentIsHigher

findCrossModuleParent(filePath) ==
    LET c == {i \in 1..Len(callStack) :
                 /\ callStack[i].status = "active"
                 /\ callStack[i].filePath # filePath
                 /\ isReasonableCrossModuleCall(callStack[i].filePath, filePath)}
    IN  IF c = {} THEN 0 ELSE Max(c)

(* a variant of findFallbackParent whose second loop runs from the top *)
findFallbackParent_Top(functionName) ==
    LET diff == {i \in 1..Len(callStack) :
                    callStack[i].status = "active" /\ callStack[i].name # functionName}
        act == {i \in 1..Len(callStack) : callStack[i].status = "active"}
    IN  IF diff # {} THEN Max(diff)
        ELSE IF act # {} THEN Max(act)
        ELSE 0

findFallbackParent(functionName) ==
    LET diff == {i \in 1..Len(callStack) :
                    callStack[i].status = "active" /\ callStack[i].name # functionName}
        act == {i \in 1..Len(callStack) : callStack[i].status = "active"}
    IN  IF diff # {} THEN Max(diff)
        ELSE IF act # {} THEN Min(act)
        ELSE 0

ParentOf_NoParent(i) == [parentId |-> Null, depth |-> callStack[i].depth + 1]
ParentOf(i) == [parentId |-> callStack[i].id, depth |-> callStack[i].depth + 1]

findParentCall(functionName, filePath, currentTime) ==
    IF Len(callStack) = 0 THEN [parentId |-> Null, depth |-> 0]
    ELSE IF findDirectParent(functionName, filePath, currentTime) # 0
         THEN ParentOf(findDirectParent(functionName, filePath, currentTime))
    ELSE IF findNonRecursiveParent(functionName, filePath) # 0
         THEN ParentOf(findNonRecursiveParent(functionName, filePath))
    ELSE IF findAsyncBoundaryParent(currentTime) # 0
         THEN ParentOf(findAsyncBoundaryParent(currentTime))
    ELSE IF findCrossModuleParent(filePath) # 0
         THEN ParentOf(findCrossModuleParent(filePath))
    ELSE IF findFallbackParent(functionName) # 0
         THEN ParentOf(findFallbackParent(functionName))
    ELSE ParentOf(Len(callStack))

InlineTracer_enterArgs(functionName, filePath, args, budget) ==
    /\ tracer = "InlineTracer"
    /\   IF ~enabled
         THEN /\ last' = [op |-> "enter", id |-> EmptyId, name |-> functionName,
                          filePath |-> filePath]
              /\ UNCHANGED <<callStack, currentDepth, nextId>>
         ELSE /\ nextId <= budget
              /\ LET callId == IdPool[nextId]
                     currentTime == now
                     found == findParentCall(functionName, filePath, currentTime)
                     record == NewRecord(callId, functionName, filePath, args,
                                         found.depth, found.parentId)
                 IN  /\ callStack' = Append(PushChild(callStack, found.parentId, callId),
                                            record)
                     /\ currentDepth' = Max({currentDepth, found.depth})
                     /\ last' = [op |-> "enter", id |-> callId, name |-> functionName,
                                 filePath |-> filePath]
              /\ nextId' = nextId + 1
    /\ UNCHANGED <<tracer, options, callHistory, fileStats, enabled, now, statsView>>
    /\ raised' = NoException

InlineTracer_enterCall(functionName, filePath, budget) ==
    InlineTracer_enterArgs(functionName, filePath, <<>>, budget)

InlineTracer_enter ==
    \E site \in CallSites : InlineTracer_enterCall(site[1], site[2], MaxInlineCalls)

(* a variant of DepthOfStack that leaves the counter as it is *)
DepthOfStack_AsIs(stack) == currentDepth

(* Math.max(...this.callStack.map(c => c.depth), 0), or 0 for an empty stack *)
DepthOfStack(stack) ==
    IF Len(stack) = 0 THEN 0 ELSE Max({stack[i].depth : i \in 1..Len(stack)} \cup {0})

(* callHistory.find(call => call.id === callId): its index, 0 when undefined *)
findInHistory(callId) ==
    IF Indices(callHistory, callId) = {} THEN 0 ELSE Min(Indices(callHistory, callId))

(* bound: the number of synthesized records currently in history *)
Supplements ==
    Cardinality({i \in 1..Len(callHistory) : callHistory[i].name = "unknown"})

supplementRecord(callId, endTime, returnValue) ==
    [id |-> callId, name |-> "unknown", filePath |-> <<"unknown">>, args |-> <<>>,
     status |-> "completed", depth |-> currentDepth, startTime |-> endTime - 1,
     endTime |-> endTime, duration |-> 1,
     parentId |-> IF Len(callStack) > 0 THEN callStack[Len(callStack)].id ELSE Null,
     childrenIds |-> <<>>, returnValue |-> returnValue]

InlineTracer_exitCall(callId, returnValue) ==
    /\ tracer = "InlineTracer"
    /\   /\ last' = [op |-> "exit", id |-> callId, name |-> "", filePath |-> <<>>]
         /\ IF notTraced(callId)
            THEN UNCHANGED <<callStack, callHistory, currentDepth, fileStats>>
            ELSE
            LET endTime == now
                callIndex ==
                    IF Len(callStack) > 0 /\ callStack[Len(callStack)].id = callId
                    THEN Len(callStack)
                    ELSE IF Indices(callStack, callId) = {} THEN 0
                         ELSE Min(Indices(callStack, callId))
                h == findInHistory(callId)
            IN  IF callIndex # 0
                THEN LET record == Finalize(callStack[callIndex], endTime, "completed",
                                            [returnValue |-> returnValue])
                     IN  /\ callStack' = RemoveAt(callStack, callIndex)
                         /\ callHistory' = Append(callHistory, record)
                         /\ fileStats' = updateFileStats(fileStats, record)
                         /\ currentDepth' = DepthOfStack(callStack')
                ELSE IF h # 0 /\ callHistory[h].status = "active"
                THEN LET record == Finalize(callHistory[h], endTime, "completed",
                                            [returnValue |-> returnValue])
                     IN  /\ callHistory' = [callHistory EXCEPT ![h] = record]
                         /\ fileStats' = updateFileStats(fileStats, record)
                         /\ UNCHANGED <<callStack, currentDepth>>
                ELSE /\ Supplements < MaxSupplements
                     /\ LET record == supplementRecord(callId, endTime, returnValue)
                        IN  /\ callHistory' = Append(callHistory, record)
                            /\ fileStats' = updateFileStats(fileStats, record)
                     /\ UNCHANGED <<callStack, currentDepth>>
    /\ UNCHANGED <<tracer, options, enabled, now, nextId>>
    /\ statsView' = Shared(statsView, fileStats')
    /\ raised' = NoException

InlineTracer_exit ==
    \E callId \in CallIds, returnValue \in ReturnValues :
       InlineTracer_exitCall(callId, returnValue)

InlineTracer_errorCall(callId, error) ==
    /\ tracer = "InlineTracer"
    /\   /\ last' = [op |-> "error", id |-> callId, name |-> "", filePath |-> <<>>]
         /\ IF notTraced(callId)
            THEN UNCHANGED <<callStack, callHistory, currentDepth, fileStats>>
            ELSE
            LET endTime == now
                callIndex == IF Indices(callStack, callId) = {} THEN 0
                             ELSE Min(Indices(callStack, callId))
                h == findInHistory(callId)
            IN  IF callIndex # 0
                THEN LET record == Finalize(callStack[callIndex], endTime, "error",
                                            [error |-> errorInfo(error)])
                     IN  /\ callStack' = RemoveAt(callStack, callIndex)
                         /\ callHistory' = Append(callHistory, record)
                         /\ fileStats' = updateFileStats(fileStats, record)
                         /\ currentDepth' = DepthOfStack(callStack')
                ELSE IF h # 0 /\ callHistory[h].status = "active"
                THEN LET record == Finalize(callHistory[h], endTime, "error",
                                            [error |-> errorInfo(error)])
                     IN  /\ callHistory' = [callHistory EXCEPT ![h] = record]
                         /\ fileStats' = updateFileStats(fileStats, record)
                         /\ UNCHANGED <<callStack, currentDepth>>
                ELSE UNCHANGED <<callStack, callHistory, currentDepth, fileStats>>
    /\ UNCHANGED <<tracer, options, enabled, now, nextId>>
    /\ statsView' = Shared(statsView, fileStats')
    /\ raised' = NoException

InlineTracer_error ==
    \E callId \in CallIds, error \in Errors : InlineTracer_errorCall(callId, error)

InlineTracer_getStats ==
    [totalCalls |-> Len(callHistory),
     errorCount |-> Cardinality({i \in 1..Len(callHistory) : Has(callHistory[i], "error")}),
     fileStats |-> fileStats]

InlineTracer_enable ==
    /\ tracer = "InlineTracer"
    /\ enabled' = TRUE
    /\ last' = [op |-> "setEnabled", id |-> EmptyId, name |-> "", filePath |-> <<>>]
    /\ UNCHANGED <<tracer, options, callStack, callHistory, fileStats, currentDepth,
                   statsView,
                   now, nextId>>
    /\ raised' = NoException

InlineTracer_disable ==
    /\ tracer = "InlineTracer"
    /\ enabled' = FALSE
    /\ last' = [op |-> "setEnabled", id |-> EmptyId, name |-> "", filePath |-> <<>>]
    /\ UNCHANGED <<tracer, options, callStack, callHistory, fileStats, currentDepth,
                   statsView,
                   now, nextId>>
    /\ raised' = NoException

InlineTracer_clear ==
    /\ tracer = "InlineTracer"
    /\ callStack' = <<>>
    /\ callHistory' = <<>>
    /\ fileStats' = <<>>
    /\ currentDepth' = 0
    /\ last' = [op |-> "clear", id |-> EmptyId, name |-> "", filePath |-> <<>>]
    /\ UNCHANGED <<tracer, options, enabled, now, nextId>>
    /\ statsView' = Shared(statsView, fileStats')
    /\ raised' = NoException

(* the records both tree builders start from: history, then the active stack *)
allRecords == callHistory \o callStack

getStats ==
    IF tracer = "FunctionTracer" THEN FunctionTracer_getStats ELSE InlineTracer_getStats

(* ---------------------------- tree builders ---------------------------- *)
(* A built tree is the object graph the builder returns: `roots` is the array
   returned, `nodes` maps the id of each node reachable from it to the node,
   and a node's `children` lists its child nodes by id.  A builder that
   recurses for ever over a cyclic graph ends in a RangeError. *)
Range(s) == {s[i] : i \in 1..Len(s)}
IdsOf(s) == [i \in 1..Len(s) |-> s[i].id]
(* JavaScript truthiness of a number, for `x || y` *)
Truthy(x) == x # 0

RECURSIVE sortChildrenByTime_Descending(_, _)
sortChildrenByTime_Descending(ids, start) ==
    IF ids = <<>> THEN <<>>
    ELSE LET rest == sortChildrenByTime_Descending(SubSeq(ids, 1, Len(ids) - 1), start)
             x == ids[Len(ids)]
             k == Cardinality({i \in 1..Len(rest) : start[rest[i]] >= start[x]})
         IN  SubSeq(rest, 1, k) \o <<x>> \o SubSeq(rest, k + 1, Len(rest))
(* Array.prototype.sort((a, b) => a.startTime - b.startTime): stable *)
RECURSIVE sortChildrenByTime(_, _)
sortChildrenByTime(ids, start) ==
    IF ids = <<>> THEN <<>>
    ELSE LET rest == sortChildrenByTime(SubSeq(ids, 1, Len(ids) - 1), start)
             x == ids[Len(ids)]
             k == Cardinality({i \in 1..Len(rest) : start[rest[i]] <= start[x]})
         IN  SubSeq(rest, 1, k) \o <<x>> \o SubSeq(rest, k + 1, Len(rest))

(* the nodes a recursive walk over the children visits, starting from S *)
RECURSIVE Visited(_, _, _)
Visited(S, kids, n) ==
    IF n = 0 THEN S
    ELSE Visited(S \cup UNION {Range(kids[k]) : k \in S}, kids, n - 1)
Descendants(k, kids) == Visited(Range(kids[k]), kids, Cardinality(DOMAIN kids))
RecursesForEver(roots, kids) ==
    \E k \in Visited(Range(roots), kids, Cardinality(DOMAIN kids)) :
       k \in Descendants(k, kids)

EmptyTree == [roots |-> <<>>, nodes |-> <<>>]
RangeError == [threw |-> "RangeError"]

(* getCallTree / buildTreeNode: {record, children}, children in allRecords order *)
FunctionTracer_getCallTree ==
    LET keys == Range(IdsOf(allRecords))
        rootRecords == SelectSeq(allRecords, LAMBDA r : r.parentId = Null)
        kids == [k \in keys |->
                   IdsOf(SelectSeq(allRecords, LAMBDA r : r.parentId = k))]
        shown == Visited(Range(IdsOf(rootRecords)), kids, Cardinality(keys))
    IN  IF RecursesForEver(IdsOf(rootRecords), kids) THEN RangeError
        ELSE [roots |-> IdsOf(rootRecords),
              nodes |-> [k \in shown |->
                           [record |-> allRecords[Min(Indices(allRecords, k))],
                            children |-> kids[k]]]]

(* a stack record as buildCallTree copies it: endTime and duration default to
   the clock reading of the build *)
StackSnapshot(r) ==
    [endTime |-> IF Has(r, "endTime") /\ Truthy(r.endTime) THEN r.endTime ELSE now,
     duration |-> IF Has(r, "duration") /\ Truthy(r.duration) THEN r.duration
                  ELSE now - r.startTime] @@ r

(* the TreeNode made of a record (symbolSize, a function of duration, and args
   are left out) *)
TreeNode(record) ==
    [name |-> <<record.name, "()">>,
     value |-> IF Has(record, "duration") THEN record.duration ELSE 0,
     duration |-> IF Has(record, "duration") THEN record.duration ELSE 0,
     filePath |-> record.filePath[Len(record.filePath)],
     children |-> <<>>,
     itemStyle |-> IF Has(record, "error") THEN "#ff4d4f"
                   ELSE IF record.status = "completed" THEN "#52c41a" ELSE "#1890ff",
     callId |-> record.id,
     startTime |-> record.startTime,
     endTime |-> IF Has(record, "endTime") /\ Truthy(record.endTime)
                 THEN record.endTime ELSE record.startTime,
     depth |-> record.depth,
     returnValue |-> IF Has(record, "returnValue") THEN record.returnValue
                     ELSE Undefined,
     status |-> record.status]

InlineTracer_buildCallTree ==
    LET active == SelectSeq(callStack,
                            LAMBDA r : \A i \in 1..Len(callHistory) :
                                          callHistory[i].id # r.id)
        records == callHistory \o [i \in 1..Len(active) |-> StackSnapshot(active[i])]
        keys == Range(IdsOf(records))
        (* nodeMap.set(record.id, node): a later record with the id replaces it *)
        nodeMap == [k \in keys |-> TreeNode(records[Max(Indices(records, k))])]
        start == [k \in keys |-> nodeMap[k].startTime]
        pushed == [k \in keys |->
                     IdsOf(SelectSeq(records, LAMBDA r : r.parentId = k))]
        rootNodes == IdsOf(SelectSeq(records,
                                     LAMBDA r : r.parentId = Null
                                                  \/ r.parentId \notin keys))
        sortedRoots == sortChildrenByTime(rootNodes, start)
        kids == [k \in keys |-> sortChildrenByTime(pushed[k], start)]
        shown == Visited(Range(rootNodes), kids, Cardinality(keys))
        nodes == [k \in shown |-> [nodeMap[k] EXCEPT !.children = kids[k]]]
        rootDurations == [i \in 1..Len(rootNodes) |-> nodeMap[rootNodes[i]].duration]
        virtualRoot ==
            [name |-> <<"overview", Len(rootNodes)>>,
             value |-> SumSeq(rootDurations),
             duration |-> SumSeq(rootDurations),
             filePath |-> "overview",
             children |-> sortedRoots,
             itemStyle |-> "#1890ff",
             callId |-> "virtual_root",
             startTime |-> Min({nodeMap[k].startTime : k \in Range(rootNodes)}),
             endTime |-> Max({nodeMap[k].endTime : k \in Range(rootNodes)}),
             depth |-> -1,
             status |-> "completed"]
    IN  IF Len(records) = 0 THEN EmptyTree
        ELSE IF RecursesForEver(rootNodes, kids) THEN RangeError
        ELSE IF Len(rootNodes) = 0 THEN [fallback |-> "buildTreeByDepth"]
        ELSE IF Len(rootNodes) = 1 THEN [roots |-> sortedRoots, nodes |-> nodes]
        ELSE [roots |-> <<"virtual_root">>,
              nodes |-> ("virtual_root" :> virtualRoot) @@ nodes]

getCallTree ==
    IF tracer = "FunctionTracer" THEN FunctionTracer_getCallTree
    ELSE InlineTracer_buildCallTree

(* performance.now(): a monotonic clock the host advances between calls *)
Advance(t) ==
    /\ t > now /\ now' = t
    /\ last' = [op |-> "tick", id |-> EmptyId, name |-> "", filePath |-> <<>>]
    /\ UNCHANGED <<tracer, options, callStack, callHistory, fileStats, currentDepth,
                   statsView,
                   enabled, nextId>>
    /\ raised' = NoException

Tick == \E t \in ClockReadings : Advance(t)

Init ==
    /\ tracer \in {"FunctionTracer", "InlineTracer"}
    /\ options \in IF tracer = "FunctionTracer"
                   THEN [maxDepth : {MaxDepthOpt, DefaultMaxDepth},
                         includeArguments : {TRUE},
                         includeReturnValues : {TRUE},
                         serializer : {"defaultSerializer"},
                         ignorePatterns : {DefaultIgnorePatterns},
                         ignoreFiles : {DefaultIgnoreFiles},
                         samplingRate : SamplingRates]
                   ELSE {[none |-> TRUE]}
    /\ callStack = <<>>
    /\ callHistory = <<>>
    /\ fileStats = <<>>
    /\ currentDepth = 0
    /\ enabled = TRUE
    /\ now = 0
    /\ nextId = 1
    /\ last = [op |-> "new", id |-> EmptyId, name |-> "", filePath |-> <<>>]
    /\ statsView = NoStats
    /\ raised = NoException

Next ==
    \/ FunctionTracer_enter
    \/ FunctionTracer_exit
    \/ FunctionTracer_error
    \/ FunctionTracer_clear
    \/ FunctionTracer_setEnabled
    \/ InlineTracer_enter
    \/ InlineTracer_exit
    \/ InlineTracer_error
    \/ InlineTracer_clear
    \/ InlineTracer_enable
    \/ InlineTracer_disable
    \/ Tick

Spec == Init /\ [][Next]_vars

(* ------------------- a synchronous, well-nested caller ------------------ *)
(* Every call is entered, runs its callees to completion and then exits: the
   only id handed to exit is the one of the innermost running call. *)
TopId == callStack[Len(callStack)].id

FunctionTracer_enterNested ==
    \E site \in NestedSites, rnd \in RandomDraws :
       FunctionTracer_enterCall(site[1], site[2], rnd, MaxNested)

FunctionTracer_exitNested ==
    /\ Len(callStack) > 0
    /\ \E returnValue \in ReturnValues : FunctionTracer_exitCall(TopId, returnValue)

InlineTracer_enterNested ==
    \E site \in NestedSites : InlineTracer_enterCall(site[1], site[2], MaxNested)

InlineTracer_exitNested ==
    /\ Len(callStack) > 0
    /\ \E returnValue \in ReturnValues : InlineTracer_exitCall(TopId, returnValue)

TickNested == \E t \in NestedClock : Advance(t)

NextNested ==
    \/ FunctionTracer_enterNested
    \/ FunctionTracer_exitNested
    \/ InlineTracer_enterNested
    \/ InlineTracer_exitNested
    \/ TickNested

SpecNested == Init /\ [][NextNested]_vars

(* ---------------- a caller that clears while calls run ------------------ *)
(* clear() may come while calls are running; their exits arrive afterwards
   with ids the tracer no longer holds. *)
IssuedIds == {IdPool[i] : i \in 1..(nextId - 1)}

FunctionTracer_enterCleared ==
    \E site \in CallSites, rnd \in RandomDraws :
       FunctionTracer_enterCall(site[1], site[2], rnd, MaxCleared)

FunctionTracer_exitCleared ==
    \E callId \in IssuedIds, returnValue \in ReturnValues :
       FunctionTracer_exitCall(callId, returnValue)

InlineTracer_enterCleared ==
    \E site \in CallSites : InlineTracer_enterCall(site[1], site[2], MaxCleared)

InlineTracer_exitCleared ==
    \E callId \in IssuedIds, returnValue \in ReturnValues :
       InlineTracer_exitCall(callId, returnValue)

NextCleared ==
    \/ FunctionTracer_enterCleared
    \/ FunctionTracer_exitCleared
    \/ FunctionTracer_clear
    \/ InlineTracer_enterCleared
    \/ InlineTracer_exitCleared
    \/ InlineTracer_clear
    \/ Tick

SpecCleared == Init /\ [][NextCleared]_vars

(* --------------------- a caller that reads the stats -------------------- *)
(* stats = tracer.getStats(), kept by the caller while tracing goes on *)
KeepStats ==
    /\ statsView' = [taken |-> TRUE, entries |-> getStats.fileStats,
                     live |-> DOMAIN getStats.fileStats]
    /\ last' = [op |-> "getStats", id |-> EmptyId, name |-> "", filePath |-> <<>>]
    /\ UNCHANGED <<tracer, options, callStack, callHistory, fileStats, currentDepth,
                   enabled, now, nextId>>
    /\ raised' = NoException

FunctionTracer_enterStats ==
    \E site \in CallSites, rnd \in RandomDraws :
       FunctionTracer_enterCall(site[1], site[2], rnd, MaxStats)

InlineTracer_enterStats ==
    \E site \in CallSites : InlineTracer_enterCall(site[1], site[2], MaxStats)

(* the caller ends running calls only, in any order *)
RunningIds == {callStack[i].id : i \in 1..Len(callStack)}

FunctionTracer_exitStats ==
    \E callId \in RunningIds, returnValue \in ReturnValues :
       FunctionTracer_exitCall(callId, returnValue)

FunctionTracer_errorStats ==
    \E callId \in RunningIds, error \in Errors :
       FunctionTracer_errorCall(callId, error)

InlineTracer_exitStats ==
    \E callId \in RunningIds, returnValue \in ReturnValues :
       InlineTracer_exitCall(callId, returnValue)

InlineTracer_errorStats ==
    \E callId \in RunningIds, error \in Errors :
       InlineTracer_errorCall(callId, error)

NextStats ==
    \/ FunctionTracer_enterStats
    \/ FunctionTracer_exitStats
    \/ FunctionTracer_errorStats
    \/ FunctionTracer_clear
    \/ InlineTracer_enterStats
    \/ InlineTracer_exitStats
    \/ InlineTracer_errorStats
    \/ InlineTracer_clear
    \/ KeepStats
    \/ Tick

SpecStats == Init /\ [][NextStats]_vars

(* ------------- a caller whose calls are suspended and resumed ----------- *)
(* InlineTracer only: calls start at any of the clock readings and end in
   any order. *)
InitBridge == Init /\ tracer = "InlineTracer"

InlineTracer_enterBridge ==
    \E site \in BridgeSites : InlineTracer_enterCall(site[1], site[2], MaxBridge)

InlineTracer_exitBridge ==
    \E callId \in RunningIds, returnValue \in ReturnValues :
       InlineTracer_exitCall(callId, returnValue)

TickBridge == \E t \in BridgeClock : Advance(t)

NextBridge ==
    \/ InlineTracer_enterBridge
    \/ InlineTracer_exitBridge
    \/ TickBridge

SpecBridge == InitBridge /\ [][NextBridge]_vars

(* --------------------- a caller that queries the tracer ---------------- *)
(* Array.prototype.sort((a, b) => a.startTime - b.startTime): stable *)
RECURSIVE sortByStartTime(_)
sortByStartTime(records) ==
    IF records = <<>> THEN <<>>
    ELSE LET rest == sortByStartTime(SubSeq(records, 1, Len(records) - 1))
             x == records[Len(records)]
             k == Cardinality({i \in 1..Len(rest) : rest[i].startTime <= x.startTime})
         IN  SubSeq(rest, 1, k) \o <<x>> \o SubSeq(rest, k + 1, Len(rest))

(* getHistory: [...this.callHistory].sort(...) *)
getHistory == sortByStartTime(callHistory)

(* what sort leaves in this.callHistory: it is called on the copy [...array] *)
sortInPlace(array) == sortByStartTime(array)
sortOfCopy(array) == array

(* a query assigns none of the tracer's fields *)
Queried(op) ==
    /\ last' = [op |-> op, id |-> EmptyId, name |-> "", filePath |-> <<>>]
    /\ UNCHANGED <<tracer, options, callStack, fileStats, currentDepth, enabled, now,
                   nextId, statsView>>

FunctionTracer_getHistoryQuery ==
    /\ tracer = "FunctionTracer"
    /\ callHistory' = sortOfCopy(callHistory)
    /\ raised' = NoException
    /\ Queried("getHistory")

(* the recursion of buildTreeNode / sortChildrenByTime overflows on a cycle *)
FunctionTracer_getCallTreeQuery ==
    /\ tracer = "FunctionTracer"
    /\ UNCHANGED callHistory
    /\ raised' = IF FunctionTracer_getCallTree = RangeError THEN "RangeError"
                 ELSE NoException
    /\ Queried("getCallTree")

(* export: {version, timestamp, records: getHistory(), stats: getStats(), options} *)
FunctionTracer_exportQuery ==
    /\ tracer = "FunctionTracer"
    /\ callHistory' = sortOfCopy(callHistory)
    /\ raised' = NoException
    /\ Queried("export")

InlineTracer_getHistoryQuery ==
    /\ tracer = "InlineTracer"
    /\ callHistory' = sortOfCopy(callHistory)
    /\ raised' = NoException
    /\ Queried("getHistory")

InlineTracer_buildCallTreeQuery ==
    /\ tracer = "InlineTracer"
    /\ UNCHANGED callHistory
    /\ raised' = IF InlineTracer_buildCallTree = RangeError THEN "RangeError"
                 ELSE NoException
    /\ Queried("buildCallTree")

(* exportData: safeStringify({history: getHistory(), stats, activeStack}) *)
InlineTracer_exportDataQuery ==
    /\ tracer = "InlineTracer"
    /\ callHistory' = sortOfCopy(callHistory)
    /\ raised' = NoException
    /\ Queried("exportData")

FunctionTracer_enterQuery ==
    \E site \in CallSites, rnd \in RandomDraws :
       FunctionTracer_enterCall(site[1], site[2], rnd, MaxQuery)

FunctionTracer_exitQuery ==
    \E callId \in RunningIds, returnValue \in ReturnValues :
       FunctionTracer_exitCall(callId, returnValue)

InlineTracer_enterQuery ==
    \E site \in CallSites : InlineTracer_enterCall(site[1], site[2], MaxQuery)

InlineTracer_exitQuery ==
    \E callId \in IssuedIds, returnValue \in ReturnValues :
       InlineTracer_exitCall(callId, returnValue)

NextQuery ==
    \/ FunctionTracer_enterQuery
    \/ FunctionTracer_exitQuery
    \/ FunctionTracer_getHistoryQuery
    \/ FunctionTracer_getCallTreeQuery
    \/ FunctionTracer_exportQuery
    \/ InlineTracer_enterQuery
    \/ InlineTracer_exitQuery
    \/ InlineTracer_getHistoryQuery
    \/ InlineTracer_buildCallTreeQuery
    \/ InlineTracer_exportDataQuery
    \/ KeepStats
    \/ Tick

SpecQuery == Init /\ [][NextQuery]_vars

(* ------------------ a caller that ends every call once ----------------- *)
(* Tracing stays enabled; a call that was entered ends once, by exit or by
   error, in any order with respect to the other running calls. *)
FunctionTracer_enterDrain ==
    \E site \in CallSites, rnd \in RandomDraws :
       FunctionTracer_enterCall(site[1], site[2], rnd, MaxDrain)

FunctionTracer_exitDrain ==
    \E callId \in RunningIds, returnValue \in ReturnValues :
       FunctionTracer_exitCall(callId, returnValue)

FunctionTracer_errorDrain ==
    \E callId \in RunningIds, error \in Errors :
       FunctionTracer_errorCall(callId, error)

InlineTracer_enterDrain ==
    \E site \in CallSites : InlineTracer_enterCall(site[1], site[2], MaxDrain)

InlineTracer_exitDrain ==
    \E callId \in RunningIds, returnValue \in ReturnValues :
       InlineTracer_exitCall(callId, returnValue)

InlineTracer_errorDrain ==
    \E callId \in RunningIds, error \in Errors :
       InlineTracer_errorCall(callId, error)

NextDrain ==
    \/ FunctionTracer_enterDrain
    \/ FunctionTracer_exitDrain
    \/ FunctionTracer_errorDrain
    \/ InlineTracer_enterDrain
    \/ InlineTracer_exitDrain
    \/ InlineTracer_errorDrain
    \/ Tick

SpecDrain == Init /\ [][NextDrain]_vars

(* ------------------------- guards of the export ------------------------ *)
(* InlineTracer keeps the arguments themselves.  An argument here is an object
   graph: objects a and b with the properties x and y, each holding the
   number 1 or a reference to a or b ("@a", "@b"); the argument is a. *)
Objects == {"a", "b"}
Properties == <<"x", "y">>
Ref(object) == "@" \o object
Target(value) == CHOOSE object \in Objects : Ref(object) = value
IsObject(value) == \E object \in Objects : Ref(object) = value
ValueGraphs ==
    {[root |-> Ref("a"), heap |-> h] :
        h \in [Objects -> [{"x", "y"} -> {"1", Ref("a"), Ref("b")}]]}

(* stringify of safeStringify: `seen` holds the objects being copied (added
   before the properties are visited, deleted afterwards); the copy is written
   as the sequence of its tokens *)
RECURSIVE stringify(_, _, _, _)
stringify(heap, value, depth, seen) ==
    IF depth > 100 THEN <<"[Max Depth Exceeded]">>
    ELSE IF ~IsObject(value) THEN <<value>>
    ELSE IF Target(value) \in seen THEN <<"[Circular Reference]">>
    ELSE LET object == Target(value)
             entry(k) == <<Properties[k], ":">> \o
                         stringify(heap, heap[object][Properties[k]], depth + 1,
                                   seen \cup {object})
         IN  <<"{">> \o entry(1) \o entry(2) \o <<"}">>

(* exportData: safeStringify({history, stats, activeStack}); an argument of a
   record is reached at depth 4 (root, array, record, args) *)
safeStringify(graph) == stringify(graph.heap, graph.root, 4, {})

(* simplifyValue: the copy made for the nodes of the call tree *)
RECURSIVE simplifyValue(_, _, _)
simplifyValue(heap, value, depth) ==
    IF depth > 3 THEN <<"[Max Depth]">>
    ELSE IF ~IsObject(value) THEN <<value>>
    ELSE LET object == Target(value)
             entry(k) == <<Properties[k], ":">> \o
                         simplifyValue(heap, heap[object][Properties[k]], depth + 1)
         IN  <<"{">> \o entry(1) \o entry(2) \o <<"}">>

(* this.simplifyValue(record.args): the elements of the array are at depth 1 *)
simplifyArgs(graph) == simplifyValue(graph.heap, graph.root, 1)

InitGraph == Init /\ tracer = "InlineTracer"

InlineTracer_enterGraph ==
    \E graph \in ValueGraphs :
       InlineTracer_enterArgs("run", <<"src", "main.ts">>, <<graph>>, MaxGraph)

InlineTracer_exitGraph ==
    \E callId \in {callStack[i].id : i \in 1..Len(callStack)},
       returnValue \in ReturnValues :
       InlineTracer_exitCall(callId, returnValue)

NextGraph ==
    \/ InlineTracer_enterGraph
    \/ InlineTracer_exitGraph

SpecGraph == InitGraph /\ [][NextGraph]_vars

(* ----------------- a caller that passes objects around ----------------- *)
(* FunctionTracer built with the default serializer or with a configured
   one; arguments and return values are strings, functions and objects, one
   of which refers to itself. *)
InitSerial ==
    /\ tracer = "FunctionTracer"
    /\ options \in [maxDepth : {DefaultMaxDepth},
                     includeArguments : {TRUE},
                     includeReturnValues : {TRUE},
                     ignorePatterns : {DefaultIgnorePatterns},
                     ignoreFiles : {DefaultIgnoreFiles},
                     samplingRate : SamplingRates,
                     serializer : {"defaultSerializer", "JSON.stringify"}]
    /\ callStack = <<>>
    /\ callHistory = <<>>
    /\ fileStats = <<>>
    /\ currentDepth = 0
    /\ enabled = TRUE
    /\ now = 0
    /\ nextId = 1
    /\ last = [op |-> "new", id |-> EmptyId, name |-> "", filePath |-> <<>>]
    /\ statsView = NoStats
    /\ raised = NoException

FunctionTracer_enterSerial ==
    \E arg \in SerialValues :
       FunctionTracer_enterArgs("main", <<"src", "main.ts">>, <<arg>>, 0, MaxSerial)

FunctionTracer_exitSerial ==
    \E callId \in RunningIds, returnValue \in SerialValues \cup {Undefined} :
       FunctionTracer_exitCall(callId, returnValue)

FunctionTracer_errorSerial ==
    \E callId \in RunningIds, error \in Errors :
       FunctionTracer_errorCall(callId, error)

NextSerial ==
    \/ FunctionTracer_enterSerial
    \/ FunctionTracer_exitSerial
    \/ FunctionTracer_errorSerial
    \/ Tick

SpecSerial == InitSerial /\ [][NextSerial]_vars

(* ----------------------- instrumented functions ------------------------ *)
(* A statement of a function body: its node type and, for an if statement,
   the statements of its consequent; for a block, its statements. *)
Statement(type, body) == [type |-> type, body |-> body]

(* the bodies of the functions of a program before the transformation:
   a top-level return, a return nested in a branch, no return, a throw *)
Program ==
    [sum    |-> <<Statement("ExpressionStatement", <<>>),
                  Statement("ReturnStatement", <<>>)>>,
     find   |-> <<Statement("IfStatement", <<"ReturnStatement">>),
                  Statement("ReturnStatement", <<>>)>>,
     render |-> <<Statement("ExpressionStatement", <<>>)>>,
     guard  |-> <<Statement("IfStatement", <<"ReturnStatement">>),
                  Statement("ExpressionStatement", <<>>)>>,
     fail   |-> <<Statement("ThrowStatement", <<>>)>>]

ProgramFile == <<"src", "main.ts">>

(* t.isReturnStatement(stmt) *)
isReturnStatement(stmt) == stmt.type = "ReturnStatement"

(* { const __returnValue = <argument>; __tracer.exit(__callId, __returnValue);
     return __returnValue; } *)
instrumentReturnStatement(stmt) ==
    Statement("BlockStatement",
              <<"VariableDeclaration", "__tracer.exit", "ReturnStatement">>)

(* statements.map(stmt => isReturnStatement(stmt) ? instrumentReturnStatement(stmt)
                                                  : stmt) *)
instrumentStatements(statements) ==
    [i \in 1..Len(statements) |->
        IF isReturnStatement(statements[i])
        THEN instrumentReturnStatement(statements[i])
        ELSE statements[i]]

(* const __callId = __tracer.enter(...);
   try { <instrumented body> } catch (__error) { __tracer.error(...); throw __error; } *)
instrumentFunction(body) ==
    [callIdDeclaration |-> "__tracer.enter",
     tryBlock |-> instrumentStatements(body),
     catchBlock |-> <<"__tracer.error", "ThrowStatement">>]

(* Running statements without branches: the tracer calls made, in order, and
   how the run completes (normal, return or throw). *)
RECURSIVE execute(_)
execute(types) ==
    IF types = <<>> THEN [calls |-> <<>>, completion |-> "normal"]
    ELSE IF Head(types) = "ReturnStatement" THEN [calls |-> <<>>, completion |-> "return"]
    ELSE IF Head(types) = "ThrowStatement" THEN [calls |-> <<>>, completion |-> "throw"]
    ELSE LET rest == execute(Tail(types))
             call == IF Head(types) = "__tracer.exit" THEN <<"exit">>
                     ELSE IF Head(types) = "__tracer.error" THEN <<"error">>
                     ELSE <<>>
         IN  [calls |-> call \o rest.calls, completion |-> rest.completion]

(* Running the statements of a body; branch is what the tests of its if
   statements evaluate to. *)
RECURSIVE run(_, _)
run(statements, branch) ==
    IF statements = <<>> THEN [calls |-> <<>>, completion |-> "normal"]
    ELSE LET stmt == Head(statements)
             first == IF stmt.type = "IfStatement"
                      THEN (IF branch THEN execute(stmt.body) ELSE execute(<<>>))
                      ELSE IF stmt.type = "BlockStatement" THEN execute(stmt.body)
                      ELSE execute(<<stmt.type>>)
             rest == run(Tail(statements), branch)
         IN  IF first.completion = "normal"
             THEN [calls |-> first.calls \o rest.calls, completion |-> rest.completion]
             ELSE first

(* the tracer calls an instrumented function makes after enter *)
tracerCalls(fn, branch) ==
    LET try == run(fn.tryBlock, branch)
    IN  IF try.completion = "throw" THEN try.calls \o execute(fn.catchBlock).calls
        ELSE try.calls

(* how the original body completes *)
Completion(body, branch) == run(body, branch).completion

(* the function returns or falls off its end without a call to the tracer *)
Unwound(callId) ==
    /\ last' = [op |-> "return", id |-> callId, name |-> last.name,
                filePath |-> last.filePath]
    /\ raised' = NoException
    /\ UNCHANGED <<tracer, options, callStack, callHistory, fileStats, currentDepth,
                   enabled, now, nextId, statsView>>

(* The caller runs one instrumented function at a time: the function in
   progress is the one whose enter was the last operation, and __callId is
   what that enter returned. *)
InProgress == last.op = "enter"

FunctionTracer_enterTransform ==
    /\ ~InProgress
    /\ \E functionName \in DOMAIN Program, rnd \in {0} :
          FunctionTracer_enterCall(functionName, ProgramFile, rnd, MaxTransform)

InlineTracer_enterTransform ==
    /\ ~InProgress
    /\ \E functionName \in DOMAIN Program :
          InlineTracer_enterCall(functionName, ProgramFile, MaxTransform)

FunctionTracer_finishTransform ==
    /\ InProgress
    /\ \E branch \in BOOLEAN :
          LET calls == tracerCalls(instrumentFunction(Program[last.name]), branch)
          IN  IF calls = <<"exit">>
              THEN \E returnValue \in ReturnValues :
                      FunctionTracer_exitCall(last.id, returnValue)
              ELSE IF calls = <<"error">>
              THEN \E error \in Errors : FunctionTracer_errorCall(last.id, error)
              ELSE tracer = "FunctionTracer" /\ calls = <<>> /\ Unwound(last.id)

InlineTracer_finishTransform ==
    /\ InProgress
    /\ \E branch \in BOOLEAN :
          LET calls == tracerCalls(instrumentFunction(Program[last.name]), branch)
          IN  IF calls = <<"exit">>
              THEN \E returnValue \in ReturnValues :
                      InlineTracer_exitCall(last.id, returnValue)
              ELSE IF calls = <<"error">>
              THEN \E error \in Errors : InlineTracer_errorCall(last.id, error)
              ELSE tracer = "InlineTracer" /\ calls = <<>> /\ Unwound(last.id)

(* the clock advances between two function calls *)
TickTransform == ~InProgress /\ Tick

NextTransform ==
    \/ FunctionTracer_enterTransform
    \/ FunctionTracer_finishTransform
    \/ InlineTracer_enterTransform
    \/ InlineTracer_finishTransform
    \/ TickTransform

SpecTransform == Init /\ [][NextTransform]_vars

(* ------------------------------- claims -------------------------------- *)
state == <<callStack, callHistory, fileStats, currentDepth>>
StackIds == {callStack[i].id : i \in 1..Len(callStack)}
HistoryIds == {callHistory[i].id : i \in 1..Len(callHistory)}
IdIndex(id) == CHOOSE k \in 1..Len(IdPool) : IdPool[k] = id
Traced(op) == last'.op = op /\ enabled /\ last'.id # EmptyId
TopIdOrNull == IF Len(callStack) > 0 THEN callStack[Len(callStack)].id ELSE Null

(* C1: getStats().totalCalls is always the number of history records plus the
   number of records in the active stack. *)
C1_TotalCalls == getStats.totalCalls = Len(callHistory) + Len(callStack)

(* C2: with tracing enabled, exit(id) for a non-empty id that is neither in the
   active stack nor in history leaves the stack unchanged and appends exactly one
   synthesized record (name and file unknown, duration 1, startTime = endTime - 1,
   parentId = the stack top's id or null), so totalCalls grows by exactly 1. *)
C2_UnknownExitSynthesizes ==
    [][(Traced("exit") /\ last'.id \notin StackIds \cup HistoryIds) =>
         /\ callStack' = callStack
         /\ Len(callHistory') = Len(callHistory) + 1
         /\ SubSeq(callHistory', 1, Len(callHistory)) = callHistory
         /\ LET r == callHistory'[Len(callHistory')]
            IN  /\ r.id = last'.id
                /\ r.name = "unknown" /\ r.filePath = <<"unknown">>
                /\ r.duration = 1 /\ r.startTime = r.endTime - 1
                /\ r.parentId = TopIdOrNull
         /\ getStats'.totalCalls = getStats.totalCalls + 1]_vars

(* C3: once a record is finalized, a further exit(id) or error(id) with the same
   id changes neither history, the active stack, the file statistics nor the
   depth counter. *)
C3_DuplicateIsNoOp ==
    [][((Traced("exit") \/ Traced("error"))
          /\ last'.id \in HistoryIds /\ last'.id \notin StackIds) =>
         UNCHANGED state]_vars

(* C4 as stated: error(id) for an id found neither in the active stack nor in
   history appends one synthesized record to history, as exit does. *)
C4_UnknownErrorSynthesizes ==
    [][(Traced("error") /\ last'.id \notin StackIds \cup HistoryIds) =>
         /\ Len(callHistory') = Len(callHistory) + 1
         /\ callHistory'[Len(callHistory')].name = "unknown"]_vars

(* C4 as amended: error(id) finalizes a record found in the active stack with
   status error and the payload {name, message, stack} (no returnValue), moving
   it to history; for an id found neither in the active stack nor in history it
   changes nothing and synthesizes no record. *)
C4_ErrorChain ==
    [][Traced("error") =>
         /\ last'.id \in StackIds =>
              /\ Len(callHistory') = Len(callHistory) + 1
              /\ LET r == callHistory'[Len(callHistory')]
                 IN  /\ r.id = last'.id
                     /\ r.status = "error"
                     /\ Has(r, "error") /\ r.error \in {errorInfo(e) : e \in Errors}
                     /\ ~Has(r, "returnValue")
              /\ {callStack'[i].id : i \in 1..Len(callStack')} = StackIds \ {last'.id}
         /\ last'.id \notin StackIds \cup HistoryIds => UNCHANGED state]_vars

C4_Witness ==
    /\ last.op = "error" /\ last.id \in ForeignIds /\ enabled
    /\ Len(callStack) > 0
    /\ \A i \in 1..Len(callHistory) : callHistory[i].id # last.id

(* C5: exit or error for a record at any position of the active stack moves
   exactly that record, finalized, to history; every other active record stays,
   unchanged and in the same relative order. *)
C5_OutOfOrderCompletion ==
    [][((Traced("exit") \/ Traced("error")) /\ last'.id \in StackIds) =>
         LET i == CHOOSE k \in 1..Len(callStack) : callStack[k].id = last'.id
         IN  /\ Len(callStack') = Len(callStack) - 1
             /\ \A j \in 1..(i - 1) : callStack'[j] = callStack[j]
             /\ \A j \in i..Len(callStack') : callStack'[j] = callStack[j + 1]
             /\ Len(callHistory') = Len(callHistory) + 1
             /\ SubSeq(callHistory', 1, Len(callHistory)) = callHistory
             /\ LET r == callHistory'[Len(callHistory')]
                IN  /\ r.id = last'.id
                    /\ r.status = (IF last'.op = "exit" THEN "completed" ELSE "error")
                    /\ r.name = callStack[i].name
                    /\ r.parentId = callStack[i].parentId
                    /\ r.depth = callStack[i].depth]_vars

(* a call entered earlier has just completed while one entered later is active *)
C5_Witness ==
    /\ last.op \in {"exit", "error"}
    /\ \E k \in 1..Len(IdPool) : IdPool[k] = last.id
    /\ Len(callHistory) > 0 /\ callHistory[Len(callHistory)].id = last.id
    /\ callHistory[Len(callHistory)].name # "unknown"
    /\ Len(callStack) >= 1
    /\ \A j \in 1..Len(callStack) : IdIndex(callStack[j].id) > IdIndex(last.id)

(* C6: a record's status changes at most once, from active to completed or
   error, with endTime and duration set at that step; a record in history is
   changed by no operation other than clear(). *)
C6_TerminalOnce ==
    [][last'.op # "clear" =>
         /\ Len(callHistory') >= Len(callHistory)
         /\ \A i \in 1..Len(callHistory) : callHistory'[i] = callHistory[i]
         /\ \A i \in (Len(callHistory) + 1)..Len(callHistory') :
              /\ callHistory'[i].status \in {"completed", "error"}
              /\ Has(callHistory'[i], "endTime") /\ Has(callHistory'[i], "duration")
              /\ callHistory'[i].endTime = now
         /\ \A i \in 1..Len(callStack') :
              /\ callStack'[i].status = "active"
              /\ ~Has(callStack'[i], "endTime") /\ ~Has(callStack'[i], "duration")
         /\ \A i \in 1..Len(callStack) :
              \/ \E j \in 1..Len(callStack') : callStack'[j].id = callStack[i].id
              \/ \E j \in (Len(callHistory) + 1)..Len(callHistory') :
                   callHistory'[j].id = callStack[i].id]_vars

(* a duplicate exit or error has been processed for a record already terminal *)
C6_Witness ==
    /\ last.op \in {"exit", "error"} /\ enabled
    /\ \E i \in 1..Len(callHistory) :
         /\ i < Len(callHistory)
         /\ callHistory[i].id = last.id
         /\ Has(callHistory[i], "duration") /\ callHistory[i].duration > 0

(* C7: enter returns the empty id and changes nothing when tracing is disabled,
   the file matches an ignoreFiles rule, the name matches an ignorePatterns rule
   or the depth counter has reached maxDepth; otherwise (samplingRate 1) it
   returns a non-empty id and pushes exactly one active record. *)
OptionSet(o) == IF Has(options, o) THEN options[o] ELSE {}
FilteredOut(functionName, filePath) ==
    \/ ~enabled
    \/ \E p \in OptionSet("ignoreFiles") : matchPattern(filePath, p)
    \/ \E p \in OptionSet("ignorePatterns") : matchPattern(functionName, p)
    \/ Has(options, "maxDepth") /\ currentDepth >= options.maxDepth

C7_EnterFilter ==
    [][last'.op = "enter" =>
         IF FilteredOut(last'.name, last'.filePath)
         THEN last'.id = EmptyId /\ UNCHANGED state
         ELSE /\ last'.id # EmptyId
              /\ last'.id \notin StackIds \cup HistoryIds
              /\ Len(callStack') = Len(callStack) + 1
              /\ LET r == callStack'[Len(callStack')]
                 IN  /\ r.id = last'.id /\ r.status = "active"
                     /\ r.name = last'.name /\ r.filePath = last'.filePath
              /\ \A i \in 1..Len(callStack) : callStack'[i].id = callStack[i].id
              /\ UNCHANGED <<callHistory, fileStats>>]_vars

(* an enter of a traceable call site was refused by the depth cap alone *)
C7_Witness ==
    /\ last.op = "enter" /\ last.id = EmptyId /\ enabled
    /\ last.name = "main" /\ last.filePath = <<"src", "main.ts">>
    /\ Len(callStack) = MaxDepthOpt

(* C8: exit and error change nothing when the id is empty or tracing is
   disabled, even when the id names an active record. *)
C8_DisabledOrEmptyNoOp ==
    [][(last'.op \in {"exit", "error"} /\ (last'.id = EmptyId \/ ~enabled)) =>
         UNCHANGED state]_vars

C8_Witness ==
    /\ last.op \in {"exit", "error"} /\ ~enabled
    /\ \E i \in 1..Len(callStack) : callStack[i].id = last.id

(* C9: clear() leaves totalCalls 0, no record for the call tree, empty file
   statistics, an empty stack and depth counter 0; a following accepted enter
   creates a root record with parentId null and depth 0. *)
C9_ClearResets ==
    [][/\ last'.op = "clear" =>
            /\ getStats'.totalCalls = 0
            /\ allRecords' = <<>>
            /\ DOMAIN fileStats' = {}
            /\ callStack' = <<>>
            /\ currentDepth' = 0
       /\ (last.op = "clear" /\ last'.op = "enter" /\ last'.id # EmptyId) =>
            /\ Len(callStack') = 1
            /\ callStack'[1].id = last'.id
            /\ callStack'[1].parentId = Null
            /\ callStack'[1].depth = 0]_vars

(* the second id issued is a lone root: the first record was cleared away *)
C9_Witness ==
    /\ last.op = "enter" /\ last.id = IdPool[2]
    /\ Len(callStack) = 1 /\ callHistory = <<>>
    /\ callStack[1].parentId = Null /\ callStack[1].depth = 0

(* C10: a record with parentId null has depth 0; any other record has the depth
   of the record its parentId references plus 1. *)
C10_DepthIsParentPlusOne ==
    \A i \in 1..Len(allRecords) :
       LET r == allRecords[i]
       IN  IF r.parentId = Null THEN r.depth = 0
           ELSE \A j \in 1..Len(allRecords) :
                   allRecords[j].id = r.parentId => r.depth = allRecords[j].depth + 1

(* C11: for every history record with a non-null parentId, the record that
   parentId references started no later than the child did; synthesized
   records included. *)
C11_ParentStartsFirst ==
    \A i \in 1..Len(callHistory) :
       callHistory[i].parentId # Null =>
          \A j \in 1..Len(allRecords) :
             allRecords[j].id = callHistory[i].parentId =>
                allRecords[j].startTime <= callHistory[i].startTime

(* C12: no two distinct records of the active stack and history together have
   the same id, whatever exit and error calls were made. *)
C12_UniqueIds ==
    \A i, j \in 1..Len(allRecords) :
       allRecords[i].id = allRecords[j].id => i = j

(* C13: an accepted enter assigns parentId null and depth 0 exactly when the
   active stack is empty; when the stack is not empty the assigned parentId is
   the id of a record that is in the stack at that moment. *)
C13_ParentResolutionTotal ==
    [][(last'.op = "enter" /\ last'.id # EmptyId) =>
         LET r == callStack'[Len(callStack')]
         IN  /\ r.id = last'.id
             /\ (r.parentId = Null /\ r.depth = 0) <=> (callStack = <<>>)
             /\ callStack # <<>> => r.parentId \in StackIds]_vars

(* InlineTracer has just attached a call to an active record below the top *)
C13_Witness ==
    /\ tracer = "InlineTracer"
    /\ last.op = "enter" /\ last.id # EmptyId
    /\ Len(callStack) >= 3
    /\ callStack[Len(callStack)].id = last.id
    /\ callStack[Len(callStack)].parentId # callStack[Len(callStack) - 1].id
    /\ \E i \in 1..(Len(callStack) - 2) :
          callStack[i].id = callStack[Len(callStack)].parentId

(* C14: enter(main), enter(childA), exit(childA), enter(childB), exit(childB),
   exit(main) yields a tree whose single root is main with the children
   childA, childB in that order, totalCalls 3 and errorCount 0. *)
NodeName(n) == IF Has(n, "record") THEN n.record.name ELSE n.name[1]
NodeStart(n) == IF Has(n, "record") THEN n.record.startTime ELSE n.startTime
ScenarioA ==
    /\ callStack = <<>>
    /\ IdsOf(callHistory) = <<IdPool[2], IdPool[3], IdPool[1]>>
    /\ [i \in 1..3 |-> callHistory[i].name] = <<"childA", "childB", "main">>

C14_ScenarioA ==
    ScenarioA =>
       LET t == getCallTree
       IN  /\ Has(t, "roots") /\ Len(t.roots) = 1
           /\ NodeName(t.nodes[t.roots[1]]) = "main"
           /\ LET c == t.nodes[t.roots[1]].children
              IN  /\ [i \in 1..Len(c) |-> NodeName(t.nodes[c[i]])] = <<"childA", "childB">>
                  /\ \A i \in 1..Len(c) : t.nodes[c[i]].children = <<>>
           /\ getStats.totalCalls = 3
           /\ getStats.errorCount = 0

(* InlineTracer has run the scenario, childB entered after the clock advanced *)
C14_Witness ==
    /\ ScenarioA /\ tracer = "InlineTracer"
    /\ callHistory[1].startTime < callHistory[2].startTime

(* C15: after n nested enter calls and their n exits in reverse order, the
   i-th entered record (from 0) has depth i and, for i > 0, the (i-1)-th
   entered record as its parent, whatever the names, files and timestamps. *)
NestedRun(n) ==
    /\ callStack = <<>>
    /\ IdsOf(callHistory) = [i \in 1..n |-> IdPool[n + 1 - i]]

C15_SyncChain ==
    \A n \in 1..MaxNested :
       NestedRun(n) =>
          \A i \in 1..n :
             LET r == callHistory[n + 1 - i]
             IN  /\ r.depth = i - 1
                 /\ i > 1 => r.parentId = IdPool[i - 1]

(* C16: when at least 3 active records share the new call's name and file,
   enter attaches the call to the nearest active record with a different name,
   and never to an immediate predecessor of the same name and file. *)
SameActive(functionName, filePath) ==
    {i \in 1..Len(callStack) :
        /\ callStack[i].name = functionName
        /\ callStack[i].filePath = filePath
        /\ callStack[i].status = "active"}

C16_RecursionSuppression ==
    [][(/\ last'.op = "enter" /\ last'.id # EmptyId
        /\ Cardinality(SameActive(last'.name, last'.filePath)) >= 3) =>
         LET r == callStack'[Len(callStack')]
             top == callStack[Len(callStack)]
             other == {i \in 1..Len(callStack) : callStack[i].name # last'.name}
         IN  /\ other # {} => r.parentId = callStack[Max(other)].id
             /\ (top.name = last'.name /\ top.filePath = last'.filePath) =>
                   r.parentId # top.id]_vars

(* C17: every record of history and the active stack is represented by exactly
   one node of the built tree: under the node of the record its parentId
   references when that record is present, and as a root otherwise. *)
TopLevel(t) ==
    IF t.roots = <<"virtual_root">> THEN t.nodes["virtual_root"].children ELSE t.roots
(* how many times the node with id k is listed as a root or as a child *)
Occurrences(t, k) ==
    Cardinality({i \in 1..Len(TopLevel(t)) : TopLevel(t)[i] = k})
    + SumSeq([j \in 1..Len(allRecords) |->
                IF /\ allRecords[j].id \in DOMAIN t.nodes
                   /\ Min(Indices(allRecords, allRecords[j].id)) = j
                THEN LET c == t.nodes[allRecords[j].id].children
                     IN  Cardinality({i \in 1..Len(c) : c[i] = k})
                ELSE 0])

C17_EveryRecordOnce ==
    LET t == getCallTree
    IN  /\ Has(t, "roots")
        /\ \A i \in 1..Len(allRecords) :
              LET r == allRecords[i]
              IN  /\ r.id \in DOMAIN t.nodes
                  /\ NodeName(t.nodes[r.id]) = r.name
                  /\ NodeStart(t.nodes[r.id]) = r.startTime
                  /\ Occurrences(t, r.id) = 1
                  /\ IF r.parentId # Null /\ Indices(allRecords, r.parentId) # {}
                     THEN r.id \in Range(t.nodes[r.parentId].children)
                     ELSE r.id \in Range(TopLevel(t))

(* C18: the builder returns an empty tree when there are no records, the single
   root unwrapped when there is exactly one root, and otherwise one aggregate
   node whose children are all the roots, whose duration is the sum of the root
   durations and whose span runs from the least root start to the greatest
   root end. *)
RootRecords ==
    SelectSeq(allRecords,
              LAMBDA r : r.parentId = Null \/ Indices(allRecords, r.parentId) = {})

C18_SingleRooted ==
    LET t == getCallTree
    IN  /\ Has(t, "roots")
        /\ Len(allRecords) = 0 => t.roots = <<>>
        /\ Len(RootRecords) = 1 => t.roots = <<RootRecords[1].id>>
        /\ Len(RootRecords) > 1 =>
              /\ t.roots = <<"virtual_root">>
              /\ LET v == t.nodes["virtual_root"]
                 IN  /\ Len(v.children) = Len(RootRecords)
                     /\ Range(v.children) = Range(IdsOf(RootRecords))
                     /\ v.duration =
                          SumSeq([i \in 1..Len(v.children) |->
                                    t.nodes[v.children[i]].duration])
                     /\ v.startTime = Min({t.nodes[k].startTime : k \in Range(v.children)})
                     /\ v.endTime = Max({t.nodes[k].endTime : k \in Range(v.children)})

(* C20: building the call tree twice with no enter, exit, error or clear in
   between yields equal results, also when records are still active and the
   clock has advanced between the two builds. *)
C20_BuildIdempotent ==
    [][last'.op \notin {"enter", "exit", "error", "clear"} =>
         getCallTree' = getCallTree]_vars

(* C19: in the built tree the children of every node and the list of roots
   are in ascending startTime order, records with equal startTime in id order,
   whatever the order in which the calls completed. *)
IdsInStringOrder == IdPool \o <<"nonexistent-id">>
IdRank(id) == CHOOSE k \in 1..Len(IdsInStringOrder) : IdsInStringOrder[k] = id
InTreeOrder(t, list) ==
    \A i, j \in 1..Len(list) :
       i < j =>
          \/ NodeStart(t.nodes[list[i]]) < NodeStart(t.nodes[list[j]])
          \/ /\ NodeStart(t.nodes[list[i]]) = NodeStart(t.nodes[list[j]])
             /\ IdRank(list[i]) <= IdRank(list[j])

C19_SortedByStartThenId ==
    LET t == getCallTree
    IN  Has(t, "roots") =>
          /\ InTreeOrder(t, TopLevel(t))
          /\ \A k \in DOMAIN t.nodes : InTreeOrder(t, t.nodes[k].children)

(* C21: error(id, err) for an active record leaves exactly one history record
   for that call, with status error, error = {name, message, stack} taken from
   err and no returnValue; and errorCount always equals the number of history
   records whose status is error. *)
ErrorRecords == {i \in 1..Len(callHistory) : callHistory[i].status = "error"}

C21_ErrorRecorded ==
    /\ [](getStats.errorCount = Cardinality(ErrorRecords))
    /\ [][(Traced("error") /\ last'.id \in StackIds) =>
           /\ Cardinality(Indices(callHistory', last'.id)) = 1
           /\ LET r == callHistory'[Len(callHistory')]
              IN  /\ r.id = last'.id
                  /\ r.status = "error"
                  /\ DOMAIN r.error = {"name", "message", "stack"}
                  /\ \E e \in Errors : r.error.name = e.name
                                         /\ r.error.message = e.message
                  /\ ~Has(r, "returnValue")]_vars

(* an active call has just failed with an error that carries no stack *)
C21_Witness ==
    /\ last.op = "error" /\ enabled
    /\ Len(callHistory) > 0
    /\ LET r == callHistory[Len(callHistory)]
       IN  /\ r.id = last.id /\ r.status = "error"
           /\ r.error = [name |-> "E", message |-> "boom", stack |-> ""]
    /\ getStats.errorCount >= 1

(* C22: slowestCall and fastestCall of FunctionTracer.getStats are history
   records with the greatest and the least duration; among records that tie on
   that duration the one with the earliest startTime is returned; both are
   null when history is empty. *)
Extreme(call, better(_, _)) ==
    IF callHistory = <<>> THEN call = Null
    ELSE /\ \E i \in 1..Len(callHistory) : callHistory[i] = call
         /\ \A i \in 1..Len(callHistory) :
              /\ ~better(callHistory[i].duration, call.duration)
              /\ callHistory[i].duration = call.duration =>
                    call.startTime <= callHistory[i].startTime

C22_SlowestFastest ==
    tracer = "FunctionTracer" =>
       /\ Extreme(getStats.slowestCall, LAMBDA a, b : a > b)
       /\ Extreme(getStats.fastestCall, LAMBDA a, b : a < b)

(* C23: file statistics mirror history exactly: fileStats has an entry for
   file f iff some history record has filePath f; the entry's callCount is the
   number of those records, its totalDuration the sum of their durations and
   its functions the set of their names; entries are removed only by clear. *)
HistoryOf(f) == SelectSeq(callHistory, LAMBDA r : r.filePath = f)

C23_FileStatsMirrorHistory ==
    /\ [](/\ DOMAIN fileStats = {callHistory[i].filePath : i \in 1..Len(callHistory)}
          /\ \A f \in DOMAIN fileStats :
               LET records == HistoryOf(f)
               IN  /\ fileStats[f].callCount = Len(records)
                   /\ fileStats[f].totalDuration =
                        SumSeq([i \in 1..Len(records) |-> records[i].duration])
                   /\ fileStats[f].functions =
                        {records[i].name : i \in 1..Len(records)})
    /\ [][~(DOMAIN fileStats \subseteq DOMAIN fileStats') => last'.op = "clear"]_vars

C23_Witness ==
    /\ last.op \in {"exit", "error"}
    /\ \E f \in DOMAIN fileStats :
         /\ fileStats[f].callCount >= 2
         /\ fileStats[f].totalDuration > 0
         /\ Len(HistoryOf(f)) = fileStats[f].callCount

(* C24: the fileStats of a stats object returned by getStats is a defensive
   copy: no later enter, exit, error or clear changes what is seen through
   it, neither its set of files nor any entry's callCount, totalDuration or
   functions. *)
C24_StatsDefensiveCopy ==
    [][(statsView.taken /\ last'.op \in {"enter", "exit", "error", "clear"}) =>
         statsView'.entries = statsView.entries]_vars

(* C25: history is append-only and clear is the only discarding operation:
   a step other than clear keeps every history record in place, exit and
   error append at most one record and nothing else appends, and a record
   leaves the active stack only by being appended to history by the exit or
   error that carries its id; any other step leaves it active. *)
C25_AppendOnlyHistory ==
    [][last'.op # "clear" =>
         /\ Len(callHistory') \in {Len(callHistory), Len(callHistory) + 1}
         /\ SubSeq(callHistory', 1, Len(callHistory)) = callHistory
         /\ Len(callHistory') > Len(callHistory) => last'.op \in {"exit", "error"}
         /\ \A i \in 1..Len(callStack) :
              LET id == callStack[i].id
              IN  id \notin {callStack'[j].id : j \in 1..Len(callStack')} =>
                    /\ last'.op \in {"exit", "error"}
                    /\ last'.id = id
                    /\ Len(callHistory') = Len(callHistory) + 1
                    /\ callHistory'[Len(callHistory')].id = id]_vars

C25_Witness ==
    /\ last.op \in {"exit", "error"}
    /\ Len(callHistory) >= 1
    /\ Len(callStack) >= 1
    /\ callHistory[Len(callHistory)].id = last.id
    /\ callHistory[Len(callHistory)].name # "unknown"
    /\ IdIndex(callStack[1].id) < IdIndex(last.id)

(* C26: direct adjacency: when the top-of-stack record is active, has the
   file path of the new call and started less than 50 time units before now,
   an enter that creates a record gives it that record as parent, whatever
   the names involved and whatever else is active. *)
T_adj == 50
Created == last'.op = "enter" /\ last'.id # EmptyId
NewRecord_ == callStack'[Len(callStack')]

C26_DirectAdjacency ==
    [][(/\ Created
        /\ Len(callStack) > 0
        /\ callStack[Len(callStack)].status = "active"
        /\ callStack[Len(callStack)].filePath = last'.filePath
        /\ now - callStack[Len(callStack)].startTime < T_adj) =>
          /\ NewRecord_.id = last'.id
          /\ NewRecord_.parentId = callStack[Len(callStack)].id]_vars

C26_Witness ==
    /\ tracer = "InlineTracer" /\ last.op = "enter" /\ last.id # EmptyId
    /\ Len(callStack) >= 3
    /\ LET n == Len(callStack)
       IN  /\ callStack[n].id = last.id
           /\ callStack[n].parentId = callStack[n - 1].id
           /\ callStack[n].filePath = callStack[n - 1].filePath
           /\ callStack[n].startTime - callStack[n - 1].startTime < T_adj
           /\ callStack[n].name = callStack[n - 1].name
           /\ \E i \in 1..(n - 2) : callStack[i].name # callStack[n].name

(* The policies as conditions on the state an enter finds: the active
   records, from the top of the stack down, and the new call's name, file and
   time. *)
Active == {i \in 1..Len(callStack) : callStack[i].status = "active"}
Nearest(c) == Max(c)
T_async == 100
Markers == {"loadAsync"}

Adjacent(filePath) ==
    /\ Len(callStack) > 0
    /\ Len(callStack) \in Active
    /\ callStack[Len(callStack)].filePath = filePath
    /\ now - callStack[Len(callStack)].startTime < T_adj

SameCall(functionName, filePath) ==
    {i \in Active : callStack[i].name = functionName /\ callStack[i].filePath = filePath}

OtherName(functionName) == {i \in Active : callStack[i].name # functionName}

Suppressed(functionName, filePath) ==
    Cardinality(SameCall(functionName, filePath)) >= 3 /\ OtherName(functionName) # {}

AsyncBoundary ==
    {i \in Active : callStack[i].name \in Markers /\ now - callStack[i].startTime > T_async}

Directory(path) == SubSeq(path, 1, Len(path) - 1)

Related(filePath) ==
    {i \in Active :
        /\ callStack[i].filePath # filePath
        /\ \/ Directory(callStack[i].filePath) = Directory(filePath)
           \/ Len(callStack[i].filePath) < Len(filePath)}

(* C27: asynchronous-boundary bridging: when direct adjacency does not apply,
   fewer than 3 active records share the new call's name and file, and some
   active record has an asynchronous-marker name and started more than 100
   time units before now, enter selects the nearest such record as parent,
   even when a nearer active record with a different, non-marker name
   exists. *)
C27_AsyncBridging ==
    [][(/\ Created
        /\ ~Adjacent(last'.filePath)
        /\ Cardinality(SameCall(last'.name, last'.filePath)) < 3
        /\ AsyncBoundary # {}) =>
          NewRecord_.parentId = callStack[Nearest(AsyncBoundary)].id]_vars

(* C28: cross-module bridging: when direct adjacency, recursion suppression
   and asynchronous-boundary bridging yield no candidate, enter selects as
   parent the nearest active record whose file differs from the new call's
   and is related to it (same directory, or fewer path segments); an active
   record in a different, unrelated file is skipped. *)
C28_CrossModuleBridging ==
    [][(/\ Created
        /\ ~Adjacent(last'.filePath)
        /\ ~Suppressed(last'.name, last'.filePath)
        /\ AsyncBoundary = {}
        /\ Related(last'.filePath) # {}) =>
          NewRecord_.parentId = callStack[Nearest(Related(last'.filePath))].id]_vars

(* C29: fallbacks: when direct adjacency, recursion suppression,
   asynchronous-boundary and cross-module bridging yield no candidate, the
   parent is the nearest active record whose name differs from the new
   call's; if every active record has the new call's name, it is the bottom
   (oldest) entry of the active stack. *)
NoEarlierPolicy(functionName, filePath) ==
    /\ ~Adjacent(filePath)
    /\ ~Suppressed(functionName, filePath)
    /\ AsyncBoundary = {}
    /\ Related(filePath) = {}

C29_Fallbacks ==
    [][(/\ Created
        /\ Active # {}
        /\ NoEarlierPolicy(last'.name, last'.filePath)) =>
          NewRecord_.parentId =
             IF OtherName(last'.name) # {}
             THEN callStack[Nearest(OtherName(last'.name))].id
             ELSE callStack[Min(Active)].id]_vars

(* the new call found its own name only, more than once, and got the oldest *)
C29_Witness ==
    /\ last.op = "enter" /\ last.id # EmptyId
    /\ Len(callStack) >= 3
    /\ LET n == Len(callStack)
       IN  /\ callStack[n].id = last.id
           /\ \A i \in 1..n : callStack[i].name = last.name
           /\ callStack[n].startTime - callStack[n - 1].startTime >= T_adj
           /\ callStack[n].filePath = callStack[n - 1].filePath
           /\ callStack[n].parentId = callStack[1].id

(* C30: after every exit or error that removes a record from the active
   stack, from the top or from any other position, the running depth counter
   equals the greatest depth among the records that remain active, or 0 if
   none remains. *)
GreatestDepth(stack) ==
    IF stack = <<>> THEN 0
    ELSE CHOOSE d \in {stack[i].depth : i \in 1..Len(stack)} :
            \A i \in 1..Len(stack) : stack[i].depth <= d

C30_DepthAfterRemoval ==
    [][(last'.op \in {"exit", "error"} /\ Len(callStack') < Len(callStack)) =>
         currentDepth' = GreatestDepth(callStack')]_vars

(* C31: enter, exit and error never let an exception escape and never leave
   a half-finalized record: when serializing an argument or a return value
   fails, a fallback marker is stored, enter still returns an id with the
   record pushed, and exit still moves the record to history with its status
   set. *)
C31_NoExceptionEscapes ==
    [][last'.op \in {"enter", "exit", "error"} =>
         /\ raised' = NoException
         /\ \A i \in 1..Len(callStack') :
              /\ callStack'[i].status = "active"
              /\ ~Has(callStack'[i], "endTime")
         /\ (last'.op = "exit" /\ enabled /\ last'.id \in StackIds) =>
              /\ last'.id \notin {callStack'[i].id : i \in 1..Len(callStack')}
              /\ callHistory'[Len(callHistory')].id = last'.id
              /\ callHistory'[Len(callHistory')].status = "completed"]_vars

(* C32: the guards that copy values for export end on every value graph: a
   reference back to an object that is being copied becomes the circular
   marker and is not followed, and a value without reference cycles (one that
   references an object twice included) is copied without a circular
   marker. *)
CircularMarker == "[Circular Reference]"
Marked(copy) == \E i \in 1..Len(copy) : copy[i] = CircularMarker

(* the objects reached from an object by one or more references *)
RECURSIVE ReachedFrom(_, _, _)
ReachedFrom(heap, frontier, found) ==
    LET next == {o \in Objects : \E f \in frontier, k \in 1..Len(Properties) :
                    heap[f][Properties[k]] = Ref(o)}
    IN  IF next \subseteq found THEN found
        ELSE ReachedFrom(heap, next \ found, found \cup next)

Cyclic(graph) ==
    \E o \in ReachedFrom(graph.heap, {Target(graph.root)}, {}) \cup {Target(graph.root)} :
       o \in ReachedFrom(graph.heap, {o}, {})

(* the deepest nesting of object copies in a copy *)
RECURSIVE Nesting(_, _, _)
Nesting(copy, open, deepest) ==
    IF copy = <<>> THEN deepest
    ELSE IF copy[1] = "{" THEN Nesting(Tail(copy), open + 1, Max({deepest, open + 1}))
    ELSE IF copy[1] = "}" THEN Nesting(Tail(copy), open - 1, deepest)
    ELSE Nesting(Tail(copy), open, deepest)

Guarded(graph, copy) ==
    IF Cyclic(graph)
    THEN Marked(copy) /\ Nesting(copy, 0, 0) <= Cardinality(Objects)
    ELSE ~Marked(copy)

C32_GuardCyclesMarked ==
    \A i \in 1..Len(allRecords) : \A j \in 1..Len(allRecords[i].args) :
       /\ Guarded(allRecords[i].args[j], safeStringify(allRecords[i].args[j]))
       /\ Guarded(allRecords[i].args[j], simplifyArgs(allRecords[i].args[j]))

(* C33: status partition: in every reachable state each record in the active
   stack has status active and neither endTime nor duration, each record in
   history has status completed or error with endTime and duration set and
   duration = endTime - startTime, and no record is in both collections. *)
C33_StatusPartition ==
    /\ \A i \in 1..Len(callStack) :
         /\ callStack[i].status = "active"
         /\ ~Has(callStack[i], "endTime")
         /\ ~Has(callStack[i], "duration")
    /\ \A i \in 1..Len(callHistory) :
         /\ callHistory[i].status \in {"completed", "error"}
         /\ Has(callHistory[i], "endTime")
         /\ Has(callHistory[i], "duration")
         /\ callHistory[i].duration = callHistory[i].endTime - callHistory[i].startTime
    /\ StackIds \cap HistoryIds = {}

(* C34: parent and child links agree: for every record c whose parentId is
   the id of a record p held by the tracer, c.id occurs exactly once in
   p.childrenIds, and every id listed in a record's childrenIds is the id of
   a record whose parentId is that record; synthesized records included. *)
ListedIn(p, id) == Cardinality({k \in 1..Len(p.childrenIds) : p.childrenIds[k] = id})

C34_LinksAgree ==
    /\ \A i, j \in 1..Len(allRecords) :
         allRecords[i].parentId = allRecords[j].id =>
            ListedIn(allRecords[j], allRecords[i].id) = 1
    /\ \A j \in 1..Len(allRecords) : \A k \in 1..Len(allRecords[j].childrenIds) :
         \E i \in 1..Len(allRecords) :
            /\ allRecords[i].id = allRecords[j].childrenIds[k]
            /\ allRecords[i].parentId = allRecords[j].id

(* C35: building the call tree ends with a finite, acyclic tree in every
   reachable state, states reached through exit or error with unknown or
   finalized ids while other calls are active included: no node is its own
   descendant and the recursive sort of the children does not recurse
   without bound. *)
C35_TreeBuildTerminates ==
    /\ getCallTree # RangeError
    /\ Has(getCallTree, "roots") =>
         LET kids == [k \in DOMAIN getCallTree.nodes |-> getCallTree.nodes[k].children]
         IN  \A k \in DOMAIN kids : k \notin Descendants(k, kids)

(* C36: draining under any completion order: when tracing stays enabled and
   every id returned by enter receives one exit or error, in any order, then
   the active stack is empty, the depth counter is 0, history holds one
   terminal record per successful enter, and a new enter creates a root of
   depth 0.  An id has received its exit or error when it is no longer
   running; all have when none is. *)
C36_Draining ==
    /\ [](/\ StackIds \cap HistoryIds = {}
          /\ StackIds \cup HistoryIds = IssuedIds
          /\ \A id \in HistoryIds :
               /\ Cardinality(Indices(callHistory, id)) = 1
               /\ callHistory[Min(Indices(callHistory, id))].status
                     \in {"completed", "error"}
          /\ callStack = <<>> =>
               /\ currentDepth = 0
               /\ Len(callHistory) = Cardinality(IssuedIds))
    /\ [][(callStack = <<>> /\ Created) =>
            /\ NewRecord_.parentId = Null
            /\ NewRecord_.depth = 0]_vars

(* three calls ended first-in first-out, then a new root *)
C36_Witness ==
    /\ last.op = "enter" /\ last.id = IdPool[MaxDrain]
    /\ Len(callStack) = 1 /\ callStack[1].parentId = Null /\ callStack[1].depth = 0
    /\ Len(callHistory) = MaxDrain - 1
    /\ callHistory[1].id = IdPool[1]
    /\ callHistory[2].parentId = IdPool[1]
    /\ callHistory[1].endTime <= callHistory[2].endTime
    /\ currentDepth = IF tracer = "FunctionTracer" THEN 1 ELSE 0

(* C37: in FunctionTracer the running depth counter equals the number of
   records in the active stack in every reachable state; so the number of
   records active at a time never exceeds maxDepth, and the depth of each
   record is the number of records that were active when it was entered. *)
C37_DepthCountsActive ==
    /\ [](tracer = "FunctionTracer" =>
             /\ currentDepth = Len(callStack)
             /\ Len(callStack) <= options.maxDepth)
    /\ [][(tracer = "FunctionTracer" /\ Created) =>
             NewRecord_.depth = Len(callStack)]_vars

(* the older of two running calls has ended first *)
C37_Witness ==
    /\ tracer = "FunctionTracer"
    /\ last.op \in {"exit", "error"} /\ last.id \in HistoryIds
    /\ Len(callStack) = 1
    /\ IdIndex(last.id) < IdIndex(callStack[1].id)
    /\ callStack[1].depth = 1
    /\ currentDepth = 1

(* C38: the queries getHistory, getStats, getCallTree / buildCallTree and
   export / exportData are read-only: they leave the active stack, history
   and its order, every record, the file statistics, the depth counter and
   the enabled flag as they were. *)
Queries == {"getHistory", "getStats", "getCallTree", "buildCallTree", "export",
            "exportData"}

C38_QueriesReadOnly ==
    [][last'.op \in Queries =>
         UNCHANGED <<callStack, callHistory, fileStats, currentDepth, enabled>>]_vars

(* history is not in start order when it is queried *)
C38_Witness ==
    /\ last.op \in {"getHistory", "export", "exportData"}
    /\ Len(callHistory) >= 2
    /\ callHistory[1].startTime > callHistory[2].startTime
    /\ getHistory # callHistory

(* C39: every execution of an instrumented function calls enter once and
   then, however the function terminates (a top-level return, a return
   nested in a branch, falling off the end of the body, a throw), calls
   exactly one of exit or error with the id that enter returned, so that no
   record stays active for a call that has finished. *)
Finishes == InProgress /\ last'.op # "enter"

C39_ExactlyOneEnd ==
    [][Finishes =>
         /\ last'.op \in {"exit", "error"}
         /\ last'.id = last.id
         /\ last.id \notin {callStack'[i].id : i \in 1..Len(callStack')}]_vars

====
